---- MODULE Spec2Model ----
(***************************************************************************)
(* Interview-slot negotiation of HR-Genie: the two polling entry points    *)
(* ingest_manager_replies and ingest_candidate_replies, the SQLAlchemy     *)
(* session they share per run, the Gmail inbox they poll, and the outbound *)
(* helper send_time_confirmation_to_applicant.                             *)
(*                                                                         *)
(* Times are seconds relative to an arbitrary base instant.  The database  *)
(* is modelled twice: db is what is durable (committed), sess is what the  *)
(* run's session sees (db plus the flushed, uncommitted writes).  RaceSpec  *)
(* runs two calls at a time; peer holds the session and locals of the one  *)
(* that is not taking the step.                                            *)
(***************************************************************************)
EXTENDS Integers, Sequences, FiniteSets, TLC

----------------------------------------------------------------------------
\* Bounds of the model

MaxMsgs == 2
MaxSlots == 2

----------------------------------------------------------------------------
\* Rows present before any ingestion run

NoMgr == "none"
NoCand == 0
NoTime == -1
NoSlot == 0
NoIso == -1
BadIso == -2
NoIntent == "NONE"
NoStatus == "NONE"

Managers == <<"m1", "m2">>
Candidates == <<1, 2>>
CandSet == {Candidates[i] : i \in 1..Len(Candidates)}

CandidateRow(c) ==
    IF c = 1
    THEN [manager_id |-> "m1", status |-> "Forwarded to Manager", email |-> "c1"]
    ELSE [manager_id |-> NoMgr, status |-> "Forwarded to Manager", email |-> "c2"]

Addresses == {"m1", "m2", "c1", "c2"}
\* Instants, in seconds: 0 and 180 are within the five-minute tolerance of
\* each other, 3600 is within tolerance of neither.
StatedTimes == {180, 3600}
IsoVals == {NoIso, BadIso} \cup StatedTimes
RequestTimes == {BadIso, 0}
\* Values of proposed_end_time_iso: an end at the start instant, which the
\* helper refuses, and an end one hour after it.  (The slots the ingestion
\* creates are the ones without an end.)
RequestEnds == {0, 3600}

----------------------------------------------------------------------------
\* Time helpers

Abs(x) == IF x < 0 THEN -x ELSE x

_parse_iso_flexible(value) == IF value < 0 THEN NoTime ELSE value

\* _within_tolerance with a strict comparison.
_within_tolerance_Strict(a, b, minutes) == Abs(a - b) < minutes * 60

_within_tolerance(a, b, minutes) == Abs(a - b) <= minutes * 60

\* Offset of Asia/Kathmandu from UTC (+05:45), in seconds.
NPT == 20700

\* ISO 8601 texts of one day: the wall-clock reading in seconds since
\* midnight (08:15, 14:00, 20:00) and the zone designator, if any.
IsoTexts == [wall : {29700, 50400, 72000}, zone : {"naive", "Z", "+05:45"}]

\* The instant datetime.fromisoformat and the conversion to UTC give for a
\* text: a trailing Z is cut off and a naive reading is taken as UTC; only an
\* explicit offset is subtracted.
UtcReading(text) == IF text.zone = "+05:45" THEN text.wall - NPT ELSE text.wall

----------------------------------------------------------------------------
\* Database rows and queries

EmptyStatus == [exists |-> FALSE, current_status |-> NoStatus, final_meeting_time |-> NoTime]

EmptyDB ==
    [messages |-> <<>>, slots |-> <<>>, events |-> <<>>,
     status |-> [c \in CandSet |-> EmptyStatus]]

Message(gid, cand, direction, intent) ==
    [gmail_message_id |-> gid, candidate_id |-> cand, direction |-> direction, intent |-> intent]

ConversationEvent(cand, type, src) ==
    [candidate_id |-> cand, event_type |-> type, source |-> src]

InterviewSlot(cand, by, st, en, src) ==
    [candidate_id |-> cand, proposed_by |-> by, start_time |-> st, end_time |-> en,
     status |-> "proposed", source |-> src]

HasMessage(d, gid) == \E i \in 1..Len(d.messages) : d.messages[i].gmail_message_id = gid

AddMessage(d, row) == [d EXCEPT !.messages = Append(@, row)]

SetIntent(d, intent) == [d EXCEPT !.messages[Len(d.messages)].intent = intent]

AddEvent(d, ev) == [d EXCEPT !.events = Append(@, ev)]

AddSlot(d, slot) == [d EXCEPT !.slots = Append(@, slot)]

EnsureStatus(d, c) == [d EXCEPT !.status[c].exists = TRUE]

Take(s, n) == SubSeq(s, 1, IF Len(s) < n THEN Len(s) ELSE n)

RECURSIVE OpenFrom(_, _, _, _)
OpenFrom(d, c, by, i) ==
    IF i = 0 THEN <<>>
    ELSE (IF /\ d.slots[i].candidate_id = c
             /\ d.slots[i].proposed_by = by
             /\ d.slots[i].status = "proposed"
          THEN <<i>> ELSE <<>>) \o OpenFrom(d, c, by, i - 1)

_latest_open_manager_slots(d, c, limit) == Take(OpenFrom(d, c, "manager", Len(d.slots)), limit)

\* _latest_open_applicant_slots without its filter on the proposer.
_latest_open_applicant_slots_AnyProposer(d, c, limit) ==
    Take(OpenFrom(d, c, "manager", Len(d.slots)) \o OpenFrom(d, c, "applicant", Len(d.slots)),
         limit)

_latest_open_applicant_slots(d, c, limit) == Take(OpenFrom(d, c, "applicant", Len(d.slots)), limit)

_resolve_manager_for_candidate(c) == CandidateRow(c).manager_id

Eligible(mgr) ==
    {c \in CandSet : /\ CandidateRow(c).manager_id = mgr
                     /\ CandidateRow(c).status \in {"Forwarded to Manager", "Received"}}

_resolve_candidate_for_manager(mgr) ==
    IF Eligible(mgr) = {} THEN NoCand
    ELSE CHOOSE c \in Eligible(mgr) : \A o \in Eligible(mgr) : o <= c

----------------------------------------------------------------------------
\* Slot matching

RECURSIVE MatchFrom(_, _, _, _, _, _)
MatchFrom(d, manager_slots, cand_start, cand_end, tol, i) ==
    IF i > Len(manager_slots) THEN NoSlot
    ELSE LET s == d.slots[manager_slots[i]] IN
         IF /\ _within_tolerance(s.start_time, cand_start, tol)
            /\ \/ s.end_time = NoTime
               \/ cand_end = NoTime
               \/ _within_tolerance(s.end_time, cand_end, tol)
         THEN manager_slots[i]
         ELSE MatchFrom(d, manager_slots, cand_start, cand_end, tol, i + 1)

\* _find_matching_manager_slot without the comparison of the ends.
_find_matching_manager_slot_StartOnly(d, manager_slots, cand_start, cand_end, tol) ==
    MatchFrom(d, manager_slots, cand_start, NoTime, tol, 1)

_find_matching_manager_slot(d, manager_slots, cand_start, cand_end, tol) ==
    MatchFrom(d, manager_slots, cand_start, cand_end, tol, 1)

----------------------------------------------------------------------------
\* Intent extraction (services/intent_parser_llm.py)

ALLOWED_INTENTS == {"MEETING_SCHEDULED", "PROCEED", "REJECTION", "SALARY_DISCUSSION", "OTHER"}

NoSalary == -1
RawIntents == ALLOWED_INTENTS \cup {"CONFIRMED"}
RawSalaries == {0, 50000}

\* What the extraction service can do on one call: the client cannot be
\* built, the call or the JSON decoding fails, or a JSON object comes back.
LLMResponses ==
    {[kind |-> "ctor_fail", intent |-> "none", meeting_iso |-> NoIso, salary_amount |-> NoSalary],
     [kind |-> "invoke_fail", intent |-> "none", meeting_iso |-> NoIso, salary_amount |-> NoSalary]}
    \cup [kind : {"ok"}, intent : RawIntents \ {"REJECTION", "SALARY_DISCUSSION"},
          meeting_iso : IsoVals, salary_amount : {NoSalary}]
    \cup [kind : {"ok"}, intent : {"REJECTION"}, meeting_iso : {NoIso},
          salary_amount : {NoSalary}]
    \cup [kind : {"ok"}, intent : {"SALARY_DISCUSSION"}, meeting_iso : {NoIso},
          salary_amount : {NoSalary} \cup RawSalaries]

\* Responses to candidate mail: the handler stores the intent and reads
\* only the times.
CandidateResponses ==
    {r \in LLMResponses : \/ r.kind # "ok"
                          \/ r.intent = "MEETING_SCHEDULED" /\ r.meeting_iso # NoIso
                          \/ r.intent = "OTHER" /\ r.meeting_iso = NoIso}

EmptyMeta == [meeting_iso |-> NoIso, salary_amount |-> NoSalary, proposed_slots |-> <<>>]

\* parse_intent_llm without the coercion of the intent to an allowed one.
parse_intent_llm_Uncoerced(resp) ==
    IF resp.kind = "ctor_fail"
    THEN [raised |-> TRUE, intent |-> NoIntent, meta |-> EmptyMeta]
    ELSE IF resp.kind = "invoke_fail"
    THEN [raised |-> FALSE, intent |-> "OTHER", meta |-> EmptyMeta]
    ELSE LET meta == [meeting_iso |-> resp.meeting_iso,
                      salary_amount |-> resp.salary_amount,
                      proposed_slots |-> <<>>]
             intent == IF resp.intent = "MEETING_SCHEDULED" /\ meta.meeting_iso = NoIso
                       THEN "PROCEED" ELSE resp.intent
         IN [raised |-> FALSE, intent |-> intent, meta |-> meta]

\* parse_intent_llm when it also returns the time it found as a proposed range.
parse_intent_llm_Repeats(resp) ==
    IF resp.kind = "ctor_fail"
    THEN [raised |-> TRUE, intent |-> NoIntent, meta |-> EmptyMeta]
    ELSE IF resp.kind = "invoke_fail"
    THEN [raised |-> FALSE, intent |-> "OTHER", meta |-> EmptyMeta]
    ELSE LET coerced == IF resp.intent \in ALLOWED_INTENTS THEN resp.intent ELSE "OTHER"
             meta == [meeting_iso |-> resp.meeting_iso,
                      salary_amount |-> resp.salary_amount,
                      proposed_slots |-> IF resp.meeting_iso = NoIso THEN <<>>
                                         ELSE <<[start |-> resp.meeting_iso, end |-> NoIso]>>]
             intent == IF coerced = "MEETING_SCHEDULED" /\ meta.meeting_iso = NoIso
                       THEN "PROCEED" ELSE coerced
         IN [raised |-> FALSE, intent |-> intent, meta |-> meta]

\* parse_intent_llm without the downgrade of a meeting that has no time.
parse_intent_llm_Unguarded(resp) ==
    IF resp.kind = "ctor_fail"
    THEN [raised |-> TRUE, intent |-> NoIntent, meta |-> EmptyMeta]
    ELSE IF resp.kind = "invoke_fail"
    THEN [raised |-> FALSE, intent |-> "OTHER", meta |-> EmptyMeta]
    ELSE LET coerced == IF resp.intent \in ALLOWED_INTENTS THEN resp.intent ELSE "OTHER"
             meta == [meeting_iso |-> resp.meeting_iso,
                      salary_amount |-> resp.salary_amount,
                      proposed_slots |-> <<>>]
         IN [raised |-> FALSE, intent |-> coerced, meta |-> meta]

parse_intent_llm(resp) ==
    IF resp.kind = "ctor_fail"
    THEN [raised |-> TRUE, intent |-> NoIntent, meta |-> EmptyMeta]
    ELSE IF resp.kind = "invoke_fail"
    THEN [raised |-> FALSE, intent |-> "OTHER", meta |-> EmptyMeta]
    ELSE LET coerced == IF resp.intent \in ALLOWED_INTENTS THEN resp.intent ELSE "OTHER"
             meta == [meeting_iso |-> resp.meeting_iso,
                      salary_amount |-> resp.salary_amount,
                      proposed_slots |-> <<>>]
             intent == IF coerced = "MEETING_SCHEDULED" /\ meta.meeting_iso = NoIso
                       THEN "PROCEED" ELSE coerced
         IN [raised |-> FALSE, intent |-> intent, meta |-> meta]

\* The times a message states: the single time field, then the proposed ranges.
StatedSlots(meta) ==
    (IF meta.meeting_iso # NoIso THEN <<[start |-> meta.meeting_iso, end |-> NoIso]>> ELSE <<>>)
    \o SelectSeq(meta.proposed_slots, LAMBDA s : s.start # NoIso)

----------------------------------------------------------------------------
\* Session writes of an acceptance

\* AcceptSlot when the open slots that lost to slot i are declined.
AcceptSlot_DeclinesRest(d, i, en) ==
    [d EXCEPT !.slots = [k \in DOMAIN d.slots |->
                            IF k = i THEN [d.slots[k] EXCEPT !.status = "accepted"]
                            ELSE IF d.slots[k].status = "proposed"
                            THEN [d.slots[k] EXCEPT !.status = "declined"]
                            ELSE d.slots[k]]]

\* AcceptSlot when the search for slot i has marked every slot it looked at.
AcceptSlot_SearchMarks(d, i, en) ==
    [d EXCEPT !.slots = [k \in DOMAIN d.slots |->
                            IF k <= i THEN [d.slots[k] EXCEPT !.status = "accepted"]
                            ELSE d.slots[k]]]

AcceptSlot(d, i, en) ==
    [d EXCEPT !.slots[i].status = "accepted",
              !.slots[i].end_time = IF en # NoTime /\ @ = NoTime THEN en ELSE @]

\* ConfirmStatus without its write of final_meeting_time.
ConfirmStatus_LabelOnly(d, c, t) ==
    [d EXCEPT !.status[c].current_status = "Interview Confirmed"]

ConfirmStatus(d, c, t) ==
    [d EXCEPT !.status[c].current_status = "Interview Confirmed",
              !.status[c].final_meeting_time = t]

SetCurrentStatus(d, c, label) == [d EXCEPT !.status[c].current_status = label]

\* send_email_html called for each element of list in order; call number
\* failAt raises (0: none does).
Sends(list, failAt) ==
    IF failAt \in 1..Len(list)
    THEN [sent |-> SubSeq(list, 1, failAt - 1), raised |-> TRUE]
    ELSE [sent |-> list, raised |-> FALSE]

----------------------------------------------------------------------------
\* State

VARIABLES
    mail,            \* the Gmail inbox: sender, quick-confirm wording, UNREAD label
    db,              \* committed rows
    sess,            \* rows as the running session sees them
    broken,          \* the session's transaction was rolled back by a failed flush
    pc,              \* "idle" | "party" | "msgs"
    kind,            \* "manager" | "candidate": the entry point that is running
    unread_only,     \* argument of the run
    party,           \* index of the manager or candidate being polled
    emails,          \* messages fetched for the party and not yet handled
    open_mgr_slots,  \* slot ids loaded once per candidate before its batch
    counts,          \* processed, skipped, errors of the run
    fetched,         \* ids returned by the successful fetches of the run
    marked,          \* ids mark_read was called for in the run
    handled,         \* ids a message handler ran for, in any run
    accepts,         \* per slot id: how often an acceptance was committed
    calendars,       \* per slot id: how often create_event_with_meet was called
    last,            \* what the most recent step did, when it was a step of a run
    calc,            \* the last call of a helper made on its own: function, arguments, result
    hr,              \* screening: candidate rows, invitations, and the emails that left
    peer             \* a second ingestion call in progress: its session and locals

vars == <<mail, db, sess, broken, pc, kind, unread_only, party, emails,
          open_mgr_slots, counts, fetched, marked, handled,
          accepts, calendars, last, calc, hr, peer>>

ZeroCounts == [processed |-> 0, skipped |-> 0, errors |-> 0]

NoCalc == [fn |-> "none"]

\* Candidate rows of the screening stage (database/models.py, Candidate and
\* Referral): no row yet, or status, cv_score, an internal referral, an email
\* address, and whether uploaded_at is older than the grace period.
NoScore == -1
AbsentCand == [status |-> "absent", cv_score |-> NoScore, internal |-> FALSE,
               email |-> FALSE, old |-> FALSE]

NoOp == [fn |-> "none", sent |-> FALSE, again |-> FALSE]

EmptyHR ==
    [cand |-> [c \in CandSet |-> AbsentCand],
     rejections |-> [c \in CandSet |-> 0],    \* rejection emails sent to c
     notices |-> [c \in CandSet |-> 0],       \* manager emails about c sent without force_send
     forced |-> [c \in CandSet |-> 0],        \* manager emails about c sent with force_send
     invites |-> [c \in CandSet |-> 0],       \* invitations sent to c since its newest manager slot
     messages |-> [c \in CandSet |-> 0],      \* outbound Message rows of c
     labels |-> [c \in CandSet |-> NoStatus], \* CandidateStatus.current_status
     slots |-> <<>>,                          \* open manager slots: candidate_id, created_at
     events |-> <<>>,                         \* REQUEST_TIME_CONFIRMATION events: candidate_id, created_at
     now |-> 0,                               \* the database clock
     op |-> NoOp]                             \* what the most recent call did

\* No second call is in progress.
NoPeer ==
    [pc |-> "idle", kind |-> "none", party |-> 0, emails |-> <<>>, open_mgr_slots |-> <<>>,
     counts |-> ZeroCounts, fetched |-> {}, marked |-> {},
     sess |-> EmptyDB, broken |-> FALSE, base |-> EmptyDB]

NoLast ==
    [gid |-> 0, entry |-> "none", outcome |-> "none", cause |-> "none", repeat |-> FALSE,
     intent |-> NoIntent, sends |-> <<>>, calendar |-> "none", accepted |-> NoSlot,
     created |-> 0, committed |-> FALSE]

Init ==
    /\ mail = <<>>
    /\ db = EmptyDB
    /\ sess = EmptyDB
    /\ broken = FALSE
    /\ pc = "idle"
    /\ kind = "none"
    /\ unread_only = TRUE
    /\ party = 0
    /\ emails = <<>>
    /\ open_mgr_slots = <<>>
    /\ counts = ZeroCounts
    /\ fetched = {}
    /\ marked = {}
    /\ handled = {}
    /\ accepts = [i \in 1..MaxSlots |-> 0]
    /\ calendars = [i \in 1..MaxSlots |-> 0]
    /\ last = NoLast
    /\ calc = NoCalc
    /\ hr = EmptyHR
    /\ peer = NoPeer

----------------------------------------------------------------------------
\* Candidate-reply handler (body of the per-message try block)

\* What can go wrong outside the database while one message is handled; at
\* most one of them per message.
Faults == {"none", "import", "calendar", "mark_read", "send1", "send2"}

FailAt(fault) == CASE fault = "send1" -> 1 [] fault = "send2" -> 2 [] OTHER -> 0

\* The handler raised: what is left in the session, and why.
Failed(s, d, brk, cause) ==
    [sess |-> s, db |-> d, broken |-> brk, outcome |-> "error", cause |-> cause,
     intent |-> NoIntent, sends |-> <<>>, calendar |-> "none", accepted |-> NoSlot,
     created |-> 0, committed |-> FALSE]

\* The handler got past its commit; a later send may still have raised.
Done(s, intent, out, calendar, accepted, created) ==
    [sess |-> s, db |-> s, broken |-> FALSE,
     outcome |-> IF out.raised THEN "error" ELSE "processed",
     cause |-> IF out.raised THEN "send" ELSE "none",
     intent |-> intent, sends |-> out.sent, calendar |-> calendar, accepted |-> accepted,
     created |-> created, committed |-> TRUE]

\* First stated time, from position i on, that matches an open manager slot.
RECURSIVE FirstAccept(_, _, _, _)
FirstAccept(d, slots, cs, i) ==
    IF i > Len(cs) THEN [slot |-> NoSlot, en |-> NoTime]
    ELSE LET st == _parse_iso_flexible(cs[i].start)
             en == IF cs[i].end # NoIso THEN _parse_iso_flexible(cs[i].end) ELSE NoTime
             match == IF st = NoTime THEN NoSlot
                      ELSE _find_matching_manager_slot(d, slots, st, en, 5)
         IN IF match # NoSlot THEN [slot |-> match, en |-> en]
            ELSE FirstAccept(d, slots, cs, i + 1)

\* One applicant-proposed slot per stated time whose start parses.
RECURSIVE CreateApplicantSlots(_, _, _, _, _)
CreateApplicantSlots(d, c, cs, src, i) ==
    IF i > Len(cs) THEN d
    ELSE LET st == _parse_iso_flexible(cs[i].start)
             en == IF cs[i].end # NoIso THEN _parse_iso_flexible(cs[i].end) ELSE NoTime
             d1 == IF st = NoTime THEN d
                   ELSE AddSlot(d, InterviewSlot(c, "applicant", st, en, src))
         IN CreateApplicantSlots(d1, c, cs, src, i + 1)

\* CandidateAccepted without its CANDIDATE_ACCEPTED event.
CandidateAccepted_NoEvent(d, c, m, g, intent, calOK, failAt) ==
    LET d1 == AcceptSlot(d, m.slot, m.en)
        d2 == ConfirmStatus(d1, c, d1.slots[m.slot].start_time)
        out == Sends(<<"link_candidate", "link_manager", "manager_agreed">>, failAt)
    IN Done(d2, intent, out, IF calOK THEN "ok" ELSE "failed", m.slot, 0)

CandidateAccepted(d, c, m, g, intent, calOK, failAt) ==
    LET d1 == AcceptSlot(d, m.slot, m.en)
        d2 == ConfirmStatus(d1, c, d1.slots[m.slot].start_time)
        d3 == AddEvent(d2, ConversationEvent(c, "CANDIDATE_ACCEPTED", g))
        out == Sends(<<"link_candidate", "link_manager", "manager_agreed">>, failAt)
    IN Done(d3, intent, out, IF calOK THEN "ok" ELSE "failed", m.slot, 0)

\* CandidateProposed without the event of a reply that states no time.
CandidateProposed_NoTimeUnlogged(d, c, cs, g, intent, failAt) ==
    LET d1 == CreateApplicantSlots(d, c, cs, g, 1)
        n == Len(d1.slots) - Len(d.slots)
    IN IF n > 0
       THEN LET d2 == SetCurrentStatus(d1, c, "Awaiting Manager Confirmation")
                d3 == AddEvent(d2, ConversationEvent(c, "CANDIDATE_PROPOSED", g))
            IN Done(d3, intent, Sends(<<"manager_new_proposal">>, failAt), "none", NoSlot, n)
       ELSE Done(d1, intent, Sends(<<"manager_fallback">>, failAt), "none", NoSlot, 0)

\* CandidateProposed without its write of the status label.
CandidateProposed_NoLabel(d, c, cs, g, intent, failAt) ==
    LET d1 == CreateApplicantSlots(d, c, cs, g, 1)
        n == Len(d1.slots) - Len(d.slots)
    IN IF n > 0
       THEN LET d3 == AddEvent(d1, ConversationEvent(c, "CANDIDATE_PROPOSED", g))
            IN Done(d3, intent, Sends(<<"manager_new_proposal">>, failAt), "none", NoSlot, n)
       ELSE LET d2 == AddEvent(d1, ConversationEvent(c, "CANDIDATE_REPLIED_NO_TIME", g))
            IN Done(d2, intent, Sends(<<"manager_fallback">>, failAt), "none", NoSlot, 0)

CandidateProposed(d, c, cs, g, intent, failAt) ==
    LET d1 == CreateApplicantSlots(d, c, cs, g, 1)
        n == Len(d1.slots) - Len(d.slots)
    IN IF n > 0
       THEN LET d2 == SetCurrentStatus(d1, c, "Awaiting Manager Confirmation")
                d3 == AddEvent(d2, ConversationEvent(c, "CANDIDATE_PROPOSED", g))
            IN Done(d3, intent, Sends(<<"manager_new_proposal">>, failAt), "none", NoSlot, n)
       ELSE LET d2 == AddEvent(d1, ConversationEvent(c, "CANDIDATE_REPLIED_NO_TIME", g))
            IN Done(d2, intent, Sends(<<"manager_fallback">>, failAt), "none", NoSlot, 0)

CandidateReply(g, c, resp, calOK, failAt) ==
    IF broken THEN Failed(sess, db, TRUE, "pending_rollback")
    ELSE IF HasMessage(sess, g) THEN Failed(db, db, TRUE, "duplicate")
    ELSE LET d1 == AddMessage(sess, Message(g, c, "inbound", NoIntent))
             p == parse_intent_llm(resp)
         IN IF p.raised THEN Failed(d1, db, FALSE, "llm")
            ELSE LET d2 == EnsureStatus(SetIntent(d1, p.intent), c)
                     cs == StatedSlots(p.meta)
                     m == FirstAccept(d2, open_mgr_slots, cs, 1)
                 IN IF m.slot # NoSlot
                    THEN CandidateAccepted(d2, c, m, g, p.intent, calOK, failAt)
                    ELSE CandidateProposed(d2, c, cs, g, p.intent, failAt)

----------------------------------------------------------------------------
\* Mail transport

\* get_emails_from_sender: ids of the messages from addr, newest first.
RECURSIVE FetchFrom(_, _, _)
FetchFrom(addr, uo, i) ==
    IF i = 0 THEN <<>>
    ELSE (IF mail[i].from = addr /\ (mail[i].unread \/ ~uo) THEN <<i>> ELSE <<>>)
         \o FetchFrom(addr, uo, i - 1)

get_emails_from_sender(addr, limit, uo) == Take(FetchFrom(addr, uo, Len(mail)), limit)

Range(s) == {s[i] : i \in 1..Len(s)}

\* mark_read removes the UNREAD label unless the call fails.
mark_read(g, markOK) == IF markOK THEN [mail EXCEPT ![g].unread = FALSE] ELSE mail

\* An email arrives in the inbox.
Deliver ==
    /\ pc = "idle"
    /\ Len(mail) < MaxMsgs
    /\ \E from \in Addresses, quick \in BOOLEAN :
         /\ quick => from \in Range(Managers)
         /\ mail' = Append(mail, [from |-> from, quick |-> quick, unread |-> TRUE])
    /\ last' = NoLast
    /\ UNCHANGED <<db, sess, broken, pc, kind, unread_only, party, emails,
                   open_mgr_slots, counts, fetched, marked, handled,
                   accepts, calendars, calc, hr, peer>>

----------------------------------------------------------------------------
\* ingest_candidate_replies

Begin(k, uo) ==
    /\ pc = "idle"
    /\ kind' = k
    /\ unread_only' = uo
    /\ pc' = "party"
    /\ party' = 1
    /\ sess' = db
    /\ broken' = FALSE
    /\ last' = NoLast
    /\ UNCHANGED <<mail, db, emails, open_mgr_slots, counts, fetched, marked,
                   handled, accepts, calendars, calc, hr, peer>>

\* The values of the unread_only argument the pollers are run with.
UnreadOnlyArgs == {TRUE}

StartCandidateRun == \E uo \in UnreadOnlyArgs : Begin("candidate", uo)

\* The call ends, by return or by an exception; finally: session.close()
\* drops what was not committed, and the locals of the call are gone.
Leave(how) ==
    /\ pc' = "idle"
    /\ sess' = db
    /\ broken' = FALSE
    /\ kind' = "none"
    /\ party' = 0
    /\ emails' = <<>>
    /\ open_mgr_slots' = <<>>
    /\ counts' = ZeroCounts
    /\ fetched' = {}
    /\ marked' = {}
    /\ last' = [NoLast EXCEPT !.outcome = how]
    /\ UNCHANGED <<mail, db, unread_only, handled, accepts, calendars, calc, hr, peer>>

\* The loop moves to the next party once the batch is empty.
Advance(rest) ==
    IF rest = <<>>
    THEN pc' = "party" /\ party' = party + 1
    ELSE pc' = "msgs" /\ party' = party

\* FetchFailed without the count of the error.
FetchFailed_Uncounted ==
    /\ counts' = counts
    /\ party' = party + 1
    /\ last' = [NoLast EXCEPT !.outcome = "fetch_failed"]
    /\ UNCHANGED <<pc, emails, fetched>>

\* get_emails_from_sender raised: errors += 1; continue.
FetchFailed ==
    /\ counts' = [counts EXCEPT !.errors = @ + 1]
    /\ party' = party + 1
    /\ last' = [NoLast EXCEPT !.outcome = "fetch_failed"]
    /\ UNCHANGED <<pc, emails, fetched>>

\* Top of the loop over candidates: fetch, resolve the manager, load the
\* open manager slots.  Reading cand.email on a session whose transaction
\* was rolled back raises out of the function.
CandidateParty ==
    /\ pc = "party" /\ kind = "candidate" /\ party <= Len(Candidates)
    /\ LET c == Candidates[party] IN
       IF broken
       THEN Leave("raised")
       ELSE /\ \E fetchOK \in BOOLEAN :
                 IF ~fetchOK
                 THEN FetchFailed /\ UNCHANGED open_mgr_slots
                 ELSE LET batch == get_emails_from_sender(CandidateRow(c).email, 25,
                                                          unread_only) IN
                      /\ last' = NoLast
                      /\ fetched' = IF unread_only THEN fetched \cup Range(batch) ELSE fetched
                      /\ IF _resolve_manager_for_candidate(c) = NoMgr
                         THEN /\ counts' = [counts EXCEPT !.skipped = @ + Len(batch)]
                              /\ party' = party + 1
                              /\ UNCHANGED <<pc, emails, open_mgr_slots>>
                         ELSE /\ open_mgr_slots' = _latest_open_manager_slots(sess, c, 10)
                              /\ emails' = batch
                              /\ Advance(batch)
                              /\ UNCHANGED counts
            /\ UNCHANGED <<mail, db, sess, broken, kind, unread_only, marked,
                           handled, accepts, calendars, calc, hr, peer>>

\* Account when a message that raised is not counted.
Account_ErrorsDropped(g, r, markOK) ==
    /\ sess' = r.sess
    /\ db' = r.db
    /\ broken' = r.broken
    /\ counts' = IF r.outcome = "processed"
                 THEN [counts EXCEPT !.processed = @ + 1]
                 ELSE IF r.outcome = "skipped"
                 THEN [counts EXCEPT !.skipped = @ + 1]
                 ELSE counts
    /\ mail' = IF unread_only THEN mark_read(g, markOK) ELSE mail
    /\ marked' = IF unread_only THEN marked \cup {g} ELSE marked
    /\ handled' = IF r.outcome = "skipped" THEN handled ELSE handled \cup {g}
    /\ accepts' = IF r.accepted # NoSlot
                  THEN [accepts EXCEPT ![r.accepted] = @ + 1] ELSE accepts
    /\ calendars' = IF r.calendar # "none"
                    THEN [calendars EXCEPT ![r.accepted] = @ + 1] ELSE calendars
    /\ last' = [gid |-> g, entry |-> kind, outcome |-> r.outcome, cause |-> r.cause,
                repeat |-> g \in handled, intent |-> r.intent, sends |-> r.sends,
                calendar |-> r.calendar, accepted |-> r.accepted, created |-> r.created,
                committed |-> r.committed]
    /\ emails' = Tail(emails)
    /\ Advance(Tail(emails))

\* What every message handler leaves behind: counters, mark_read, audit.
Account(g, r, markOK) ==
    /\ sess' = r.sess
    /\ db' = r.db
    /\ broken' = r.broken
    /\ counts' = IF r.outcome = "processed"
                 THEN [counts EXCEPT !.processed = @ + 1]
                 ELSE IF r.outcome = "skipped"
                 THEN [counts EXCEPT !.skipped = @ + 1]
                 ELSE [counts EXCEPT !.errors = @ + 1]
    /\ mail' = IF unread_only THEN mark_read(g, markOK) ELSE mail
    /\ marked' = IF unread_only THEN marked \cup {g} ELSE marked
    /\ handled' = IF r.outcome = "skipped" THEN handled ELSE handled \cup {g}
    /\ accepts' = IF r.accepted # NoSlot
                  THEN [accepts EXCEPT ![r.accepted] = @ + 1] ELSE accepts
    /\ calendars' = IF r.calendar # "none"
                    THEN [calendars EXCEPT ![r.accepted] = @ + 1] ELSE calendars
    /\ last' = [gid |-> g, entry |-> kind, outcome |-> r.outcome, cause |-> r.cause,
                repeat |-> g \in handled, intent |-> r.intent, sends |-> r.sends,
                calendar |-> r.calendar, accepted |-> r.accepted, created |-> r.created,
                committed |-> r.committed]
    /\ emails' = Tail(emails)
    /\ Advance(Tail(emails))

\* Blocked when the unique index is not consulted while another transaction
\* is open.
Blocked_Never(g) == FALSE

\* messages.gmail_message_id is unique: the INSERT of a row whose id another
\* open transaction has inserted and not yet committed waits until that
\* transaction ends.
Blocked(g) ==
    /\ peer.pc # "idle" /\ ~peer.broken
    /\ HasMessage(peer.sess, g) /\ ~HasMessage(peer.base, g)
    /\ ~HasMessage(db, g)

\* One iteration of the loop over a candidate's emails.
CandidateMessage ==
    /\ pc = "msgs" /\ kind = "candidate"
    /\ ~Blocked(Head(emails))
    /\ \E resp \in CandidateResponses, fault \in Faults :
         LET g == Head(emails)
             r == CandidateReply(g, Candidates[party], resp, fault # "calendar", FailAt(fault))
         IN /\ Len(r.sess.slots) <= MaxSlots
            /\ Account(g, r, fault # "mark_read")
    /\ UNCHANGED <<kind, unread_only, open_mgr_slots, fetched, calc, hr, peer>>

\* return {"ok": True, ...}; finally: session.close()
Return ==
    /\ pc = "party"
    /\ party > (IF kind = "manager" THEN Len(Managers) ELSE Len(Candidates))
    /\ Leave("returned")

----------------------------------------------------------------------------
\* ingest_manager_replies

StartManagerRun == \E uo \in UnreadOnlyArgs : Begin("manager", uo)

\* Top of the loop over managers.  Reading mgr.email on a session whose
\* transaction was rolled back raises out of the function.
ManagerParty ==
    /\ pc = "party" /\ kind = "manager" /\ party <= Len(Managers)
    /\ IF broken
       THEN Leave("raised")
       ELSE /\ \E fetchOK \in BOOLEAN :
                 IF ~fetchOK
                 THEN FetchFailed
                 ELSE LET batch == get_emails_from_sender(Managers[party], 25, unread_only) IN
                      /\ last' = NoLast
                      /\ fetched' = IF unread_only THEN fetched \cup Range(batch) ELSE fetched
                      /\ emails' = batch
                      /\ Advance(batch)
                      /\ UNCHANGED counts
            /\ UNCHANGED <<mail, db, sess, broken, kind, unread_only, open_mgr_slots,
                           marked, handled, accepts, calendars, calc, hr, peer>>

CONFIRM_INTENTS == {"CONFIRM", "CONFIRMED", "AGREE", "AGREED", "ACCEPT", "ACCEPTED"}

\* No candidate resolved for the manager: counted as skipped, nothing written.
Skipped ==
    [sess |-> sess, db |-> db, broken |-> FALSE, outcome |-> "skipped", cause |-> "none",
     intent |-> NoIntent, sends |-> <<>>, calendar |-> "none", accepted |-> NoSlot,
     created |-> 0, committed |-> FALSE]

\* The handler finished without a commit of its own.
Pending(s, intent) ==
    [sess |-> s, db |-> db, broken |-> FALSE, outcome |-> "processed", cause |-> "none",
     intent |-> intent, sends |-> <<>>, calendar |-> "none", accepted |-> NoSlot,
     created |-> 0, committed |-> FALSE]

\* The time a confirming manager restated: meeting_iso, else the first
\* proposed range that has a start.
TargetOf(meta) ==
    LET t == _parse_iso_flexible(meta.meeting_iso)
        ps == SelectSeq(meta.proposed_slots, LAMBDA s : s.start # NoIso)
    IN IF t # NoTime THEN [start |-> t, end |-> NoTime]
       ELSE IF ps # <<>>
       THEN [start |-> _parse_iso_flexible(ps[1].start),
             end |-> IF ps[1].end # NoIso THEN _parse_iso_flexible(ps[1].end) ELSE NoTime]
       ELSE [start |-> NoTime, end |-> NoTime]

RECURSIVE FirstWithin(_, _, _, _)
FirstWithin(d, slots, t, i) ==
    IF i > Len(slots) THEN NoSlot
    ELSE IF _within_tolerance(d.slots[slots[i]].start_time, t, 5) THEN slots[i]
    ELSE FirstWithin(d, slots, t, i + 1)

\* ManagerMatch without the fall-back to the newest open applicant slot.
ManagerMatch_NoFallback(d, applicant_slots, target) ==
    LET hit == IF target.start = NoTime THEN NoSlot
               ELSE FirstWithin(d, applicant_slots, target.start, 1)
    IN IF hit # NoSlot THEN [slot |-> hit, en |-> target.end]
       ELSE [slot |-> NoSlot, en |-> NoTime]

\* The applicant slot a confirming manager message accepts, if any.
ManagerMatch(d, applicant_slots, target) ==
    LET hit == IF target.start = NoTime THEN NoSlot
               ELSE FirstWithin(d, applicant_slots, target.start, 1)
    IN IF hit # NoSlot THEN [slot |-> hit, en |-> target.end]
       ELSE IF applicant_slots # <<>> THEN [slot |-> applicant_slots[1], en |-> NoTime]
       ELSE [slot |-> NoSlot, en |-> NoTime]

ManagerAccepted(d, c, m, g, intent, importOK, calOK, failAt) ==
    LET d1 == AcceptSlot(d, m.slot, m.en)
        d2 == ConfirmStatus(d1, c, d1.slots[m.slot].start_time)
        d3 == AddEvent(d2, ConversationEvent(c, "MANAGER_ACCEPTED", g))
        out == Sends(<<"link_candidate", "link_manager", "manager_confirmed",
                       "applicant_confirmed">>, failAt)
    IN IF ~importOK
       THEN [Done(d3, intent, Sends(<<>>, 0), "none", m.slot, 0)
                EXCEPT !.outcome = "error", !.cause = "import"]
       ELSE Done(d3, intent, out, IF calOK THEN "ok" ELSE "failed", m.slot, 0)

\* One manager-proposed slot per stated time that parses and whose end,
\* when present, is after its start.
RECURSIVE CreateManagerSlots(_, _, _, _, _)
CreateManagerSlots(d, c, cs, src, i) ==
    IF i > Len(cs) THEN d
    ELSE LET st == _parse_iso_flexible(cs[i].start)
             en == IF cs[i].end # NoIso THEN _parse_iso_flexible(cs[i].end) ELSE NoTime
             d1 == IF st = NoTime \/ (en # NoTime /\ en <= st) THEN d
                   ELSE AddSlot(d, InterviewSlot(c, "manager", st, en, src))
         IN CreateManagerSlots(d1, c, cs, src, i + 1)

\* _email_applicant_request_times without its ConversationEvent.
_email_applicant_request_times_NoEvent(d, c) ==
    LET d1 == AddMessage(d, Message(0, c, "outbound", "REQUEST_TIME_CONFIRMATION"))
    IN SetCurrentStatus(EnsureStatus(d1, c), c, "Awaiting Candidate Confirmation")

\* Outbound Message and event rows, then the status label, then commit.
_email_applicant_request_times(d, c) ==
    LET d1 == AddMessage(d, Message(0, c, "outbound", "REQUEST_TIME_CONFIRMATION"))
        d2 == AddEvent(d1, ConversationEvent(c, "REQUEST_TIME_CONFIRMATION", 0))
    IN SetCurrentStatus(EnsureStatus(d2, c), c, "Awaiting Candidate Confirmation")

ManagerScheduled(d, c, meta, g, intent, failAt) ==
    LET d1 == CreateManagerSlots(d, c, StatedSlots(meta), g, 1)
        n == Len(d1.slots) - Len(d.slots)
        d2 == SetCurrentStatus(d1, c, "Awaiting Candidate Confirmation")
        out == Sends(<<"applicant_request_times">>, failAt)
    IN IF n = 0 THEN Done(d2, intent, Sends(<<>>, 0), "none", NoSlot, 0)
       ELSE IF out.raised THEN Done(d2, intent, out, "none", NoSlot, n)
       ELSE Done(_email_applicant_request_times(d2, c), intent, out, "none", NoSlot, n)

ManagerProceed(d, c, meta, intent, failAt) ==
    LET d1 == SetCurrentStatus(d, c, "Manager Approved") IN
    IF meta.meeting_iso # NoIso \/ meta.proposed_slots # <<>>
    THEN Pending(d1, intent)
    ELSE LET d2 == AddMessage(d1, Message(0, c, "outbound", "ASKED_FOR_AVAILABILITY"))
             d3 == AddEvent(d2, ConversationEvent(c, "ASKED_FOR_AVAILABILITY", 0))
             d4 == SetCurrentStatus(d3, c, "Awaiting Manager Availability")
             out == Sends(<<"manager_availability_followup">>, failAt)
         IN Done(d4, intent, [sent |-> out.sent, raised |-> FALSE], "none", NoSlot, 0)

ManagerDispatch(d, c, p, g, failAt) ==
    IF p.intent = "MEETING_SCHEDULED" THEN ManagerScheduled(d, c, p.meta, g, p.intent, failAt)
    ELSE IF p.intent = "SALARY_DISCUSSION" /\ p.meta.salary_amount \notin {NoSalary, 0}
    THEN Pending(SetCurrentStatus(d, c, "Salary Discussed"), p.intent)
    ELSE IF p.intent = "REJECTION"
    THEN Pending(SetCurrentStatus(d, c, "Rejected by Manager"), p.intent)
    ELSE IF p.intent = "PROCEED" THEN ManagerProceed(d, c, p.meta, p.intent, failAt)
    ELSE Pending(d, p.intent)

ManagerReply(g, mgr, resp, importOK, calOK, failAt) ==
    IF broken THEN Failed(sess, db, TRUE, "pending_rollback")
    ELSE LET c == _resolve_candidate_for_manager(mgr) IN
    IF c = NoCand THEN Skipped
    ELSE IF HasMessage(sess, g) THEN Failed(db, db, TRUE, "duplicate")
    ELSE LET d1 == AddMessage(sess, Message(g, c, "inbound", NoIntent))
             p == parse_intent_llm(resp)
         IN IF p.raised THEN Failed(d1, db, FALSE, "llm")
            ELSE LET d2 == AddEvent(SetIntent(d1, p.intent), ConversationEvent(c, p.intent, g))
                     d3 == EnsureStatus(d2, c)
                     is_quick_agree == mail[g].quick
                     is_llm_confirm == p.intent \in CONFIRM_INTENTS
                     m == ManagerMatch(d3, _latest_open_applicant_slots(d3, c, 5),
                                       TargetOf(p.meta))
                 IN IF (is_quick_agree \/ is_llm_confirm) /\ m.slot # NoSlot
                    THEN ManagerAccepted(d3, c, m, g, p.intent, importOK, calOK, failAt)
                    ELSE ManagerDispatch(d3, c, p, g, failAt)

\* One iteration of the loop over a manager's emails.
ManagerMessage ==
    /\ pc = "msgs" /\ kind = "manager"
    /\ ~Blocked(Head(emails))
    /\ \E resp \in LLMResponses, fault \in Faults :
         LET g == Head(emails)
             r == ManagerReply(g, Managers[party], resp, fault # "import",
                               fault # "calendar", FailAt(fault))
         IN /\ Len(r.sess.slots) <= MaxSlots
            /\ Account(g, r, fault # "mark_read")
    /\ UNCHANGED <<kind, unread_only, open_mgr_slots, fetched, calc, hr, peer>>

----------------------------------------------------------------------------
\* send_time_confirmation_to_applicant (mail/applicant_time_request.py): a
\* session of its own that commits everything or rolls everything back.

\* send_time_confirmation_to_applicant without its refusal of an end that is
\* not after the start.
send_time_confirmation_to_applicant_AnyEnd(d, c, proposed_time_iso, proposed_end_time_iso, sendOK) ==
    LET start_dt == _parse_iso_flexible(proposed_time_iso)
        end_dt == IF proposed_end_time_iso # NoIso
                  THEN _parse_iso_flexible(proposed_end_time_iso) ELSE NoTime
        d1 == AddSlot(d, InterviewSlot(c, "manager", start_dt, end_dt, 0))
        d2 == AddMessage(d1, Message(0, c, "outbound", "REQUEST_TIME_CONFIRMATION"))
        d3 == AddEvent(d2, ConversationEvent(c, "REQUEST_TIME_CONFIRMATION", 0))
    IN IF CandidateRow(c).manager_id = NoMgr THEN d
       ELSE IF start_dt = NoTime THEN d
       ELSE IF ~sendOK THEN d
       ELSE SetCurrentStatus(EnsureStatus(d3, c), c, "Awaiting Candidate Confirmation")

send_time_confirmation_to_applicant(d, c, proposed_time_iso, proposed_end_time_iso, sendOK) ==
    LET start_dt == _parse_iso_flexible(proposed_time_iso)
        end_dt == IF proposed_end_time_iso # NoIso
                  THEN _parse_iso_flexible(proposed_end_time_iso) ELSE NoTime
        d1 == AddSlot(d, InterviewSlot(c, "manager", start_dt, end_dt, 0))
        d2 == AddMessage(d1, Message(0, c, "outbound", "REQUEST_TIME_CONFIRMATION"))
        d3 == AddEvent(d2, ConversationEvent(c, "REQUEST_TIME_CONFIRMATION", 0))
    IN IF CandidateRow(c).manager_id = NoMgr THEN d
       ELSE IF end_dt # NoTime /\ start_dt # NoTime /\ end_dt <= start_dt THEN d
       ELSE IF start_dt = NoTime THEN d
       ELSE IF ~sendOK THEN d
       ELSE SetCurrentStatus(EnsureStatus(d3, c), c, "Awaiting Candidate Confirmation")

TimeRequest ==
    /\ pc = "idle"
    /\ Len(db.slots) < MaxSlots
    /\ \E c \in CandSet, iso \in RequestTimes, end \in RequestEnds, sendOK \in BOOLEAN :
         /\ db' = send_time_confirmation_to_applicant(db, c, iso, end, sendOK)
         /\ sess' = db'
    /\ last' = NoLast
    /\ UNCHANGED <<mail, broken, pc, kind, unread_only, party, emails, open_mgr_slots,
                   counts, fetched, marked, handled, accepts, calendars, calc, hr, peer>>

----------------------------------------------------------------------------
\* The time helpers called on their own, outside any run: one call per
\* behaviour, its arguments and result kept in calc

run == <<mail, db, sess, broken, pc, kind, unread_only, party, emails,
         open_mgr_slots, counts, fetched, marked, handled, accepts, calendars, last, peer>>

\* Instants around the five-minute boundary.
ToleranceInstants == {0, 1, 299, 300, 301, 302, 600, 601, 3600}

ToleranceCall ==
    /\ calc = NoCalc
    /\ \E a \in ToleranceInstants, b \in ToleranceInstants :
         calc' = [fn |-> "_within_tolerance", a |-> a, b |-> b,
                  out |-> _within_tolerance(a, b, 5)]
    /\ UNCHANGED <<run, hr>>

\* Starts and ends of the slots handed to the matcher, and what the
\* candidate states: T = 0, T + 3 min, T + 2 h; ends at T + 1 h, T + 1 h 4 min
\* and T + 3 h.
MatchStarts == {0, 180, 7200}
MatchEnds == {NoTime, 3600, 3840, 10800}
MatchOrders == {<<>>, <<1>>, <<1, 2>>, <<2, 1>>}

MatchCall ==
    /\ calc = NoCalc
    /\ \E st1 \in MatchStarts, st2 \in MatchStarts, en1 \in MatchEnds, en2 \in MatchEnds,
          order \in MatchOrders, cand_start \in MatchStarts, cand_end \in MatchEnds :
         LET slots == <<InterviewSlot(1, "manager", st1, en1, 0),
                        InterviewSlot(1, "manager", st2, en2, 0)>>
             d == [EmptyDB EXCEPT !.slots = slots]
         IN calc' = [fn |-> "_find_matching_manager_slot", slots |-> slots,
                     order |-> order, cand_start |-> cand_start, cand_end |-> cand_end,
                     out |-> _find_matching_manager_slot(d, order, cand_start, cand_end, 5)]
    /\ UNCHANGED <<run, hr>>

\* The start of the manager slot the MEETING_SCHEDULED branch stores for an
\* extracted meeting_iso (NoTime: no slot).
ManagerSlotStart(text) ==
    LET meta == [EmptyMeta EXCEPT !.meeting_iso = UtcReading(text)]
        d == CreateManagerSlots(EmptyDB, Candidates[1], StatedSlots(meta), 0, 1)
    IN IF d.slots = <<>> THEN NoTime ELSE d.slots[1].start_time

StoreCall ==
    /\ calc = NoCalc
    /\ \E text \in IsoTexts :
         calc' = [fn |-> "manager_slot_start", text |-> text, out |-> ManagerSlotStart(text)]
    /\ UNCHANGED <<run, hr>>

\* One call of the extraction, for each thing the service can do.
ParseCall ==
    /\ calc = NoCalc
    /\ \E resp \in LLMResponses :
         calc' = [fn |-> "parse_intent_llm", resp |-> resp, out |-> parse_intent_llm(resp)]
    /\ UNCHANGED <<run, hr>>

HelperNext ==
    \/ ToleranceCall
    \/ MatchCall
    \/ StoreCall
    \/ ParseCall

HelperSpec == Init /\ [][HelperNext]_vars

----------------------------------------------------------------------------
\* Screening mail: auto_reject_candidates (mail/auto_reject.py),
\* notify_manager_if_pass (mail/notify_manager.py) and
\* send_invite_for_candidate (mail/send_applicant_slot_invites.py), each a
\* call with a session of its own

MaxSends == 2
Scores == {NoScore, 5, 6}
THRESHOLD == 6
DefaultThreshold == 6

\* The upload endpoint stores a Candidate with status Received and the
\* evaluation stores its score.
Register ==
    /\ \E c \in CandSet, email \in BOOLEAN, internal \in BOOLEAN, score \in Scores :
         /\ hr.cand[c].status = "absent"
         /\ hr' = [hr EXCEPT !.cand[c] = [status |-> "Received", cv_score |-> score,
                                          internal |-> internal, email |-> email,
                                          old |-> FALSE],
                             !.op = [NoOp EXCEPT !.fn = "register"]]
    /\ UNCHANGED <<run, calc>>

\* Time passes: the upload of c is now older than the grace period.
GraceExpires ==
    /\ \E c \in CandSet :
         /\ hr.cand[c].status # "absent" /\ ~hr.cand[c].old
         /\ hr' = [hr EXCEPT !.cand[c].old = TRUE,
                             !.op = [NoOp EXCEPT !.fn = "grace"]]
    /\ UNCHANGED <<run, calc>>

\* _llm_rejection_email with get_llm, logging and _wrap_html bound in its
\* module: it raises only when the client cannot be built.
_llm_rejection_email_Bound(ctorOK) == [raised |-> ~ctorOK]

\* model/prompt_builder.py has no import: the first statement of the function
\* looks get_llm up in that module and raises NameError on every call.
_llm_rejection_email(ctorOK) == [raised |-> TRUE]

\* The loop of the sweep over the selected rows, in id order: rows as the
\* session sees them, rejection emails sent so far, and whether it raised.
RECURSIVE RejectFrom(_, _, _, _, _, _)
RejectFrom(cand, mailed, c, threshold, down, bounce) ==
    IF c > Len(Candidates) THEN [cand |-> cand, mailed |-> mailed, raised |-> FALSE]
    ELSE LET row == cand[c]
             selected == row.status = "Received" /\ row.old
             has_internal == row.internal
             score_ok == row.cv_score # NoScore /\ row.cv_score < threshold
             email_ok == row.email
         IN IF ~selected \/ ~email_ok \/ has_internal \/ ~score_ok
            THEN RejectFrom(cand, mailed, c + 1, threshold, down, bounce)
            ELSE IF _llm_rejection_email(c \notin down).raised
            THEN [cand |-> cand, mailed |-> mailed, raised |-> TRUE]
            ELSE RejectFrom([cand EXCEPT ![c].status = "Rejected"],
                            IF c \in bounce THEN mailed ELSE [mailed EXCEPT ![c] = @ + 1],
                            c + 1, threshold, down, bounce)

\* One commit after the loop; an exception rolls every flip back, the emails
\* have left.
auto_reject_candidates(h, threshold, down, bounce) ==
    LET r == RejectFrom(h.cand, h.rejections, 1, threshold, down, bounce)
    IN [h EXCEPT !.cand = IF r.raised THEN h.cand ELSE r.cand,
                 !.rejections = r.mailed,
                 !.op = [NoOp EXCEPT !.fn = "auto_reject_candidates",
                                     !.sent = (r.mailed # h.rejections),
                                     !.again = (h.op.fn = "auto_reject_candidates")]]

\* What can go wrong outside the database in one run of the sweep, at most
\* one thing: down, the candidates for whom the LLM client cannot be built;
\* bounce, those whose email Gmail refuses.
SweepFaults ==
    {[down |-> {}, bounce |-> {}]}
    \cup {[down |-> {c}, bounce |-> {}] : c \in CandSet}
    \cup {[down |-> {}, bounce |-> {c}] : c \in CandSet}

AutoReject ==
    /\ \E f \in SweepFaults :
         LET h == auto_reject_candidates(hr, DefaultThreshold, f.down, f.bounce)
         IN /\ \A c \in CandSet : h.rejections[c] <= MaxSends
            /\ hr' = h
    /\ UNCHANGED <<run, calc>>

\* notify_manager_if_pass without the status flip after the send.
notify_manager_if_pass_NoFlip(h, c, threshold, force_send, ctorOK, sendOK) ==
    LET row == h.cand[c]
        op == [NoOp EXCEPT !.fn = "notify_manager_if_pass"]
    IN IF row.status = "absent" \/ CandidateRow(c).manager_id = NoMgr
       THEN [h EXCEPT !.op = op]
       ELSE IF ~force_send /\ row.cv_score = NoScore THEN [h EXCEPT !.op = op]
       ELSE IF ~force_send /\ (row.status # "Received" \/ row.cv_score < threshold)
       THEN [h EXCEPT !.op = op]
       ELSE IF ~ctorOK \/ ~sendOK THEN [h EXCEPT !.op = op]
       ELSE [h EXCEPT !.notices[c] = IF force_send THEN @ ELSE @ + 1,
                      !.forced[c] = IF force_send THEN @ + 1 ELSE @,
                      !.messages[c] = @ + 1,
                      !.op = [op EXCEPT !.sent = TRUE]]

\* The gate on score and status unless forced, the email, then the outbound
\* Message row and the status Forwarded to Manager in one commit; an
\* exception (client, send) leaves nothing.
notify_manager_if_pass(h, c, threshold, force_send, ctorOK, sendOK) ==
    LET row == h.cand[c]
        op == [NoOp EXCEPT !.fn = "notify_manager_if_pass"]
    IN IF row.status = "absent" \/ CandidateRow(c).manager_id = NoMgr
       THEN [h EXCEPT !.op = op]
       ELSE IF ~force_send /\ row.cv_score = NoScore THEN [h EXCEPT !.op = op]
       ELSE IF ~force_send /\ (row.status # "Received" \/ row.cv_score < threshold)
       THEN [h EXCEPT !.op = op]
       ELSE IF ~ctorOK \/ ~sendOK THEN [h EXCEPT !.op = op]
       ELSE [h EXCEPT !.notices[c] = IF force_send THEN @ ELSE @ + 1,
                      !.forced[c] = IF force_send THEN @ + 1 ELSE @,
                      !.messages[c] = @ + 1,
                      !.cand[c].status = "Forwarded to Manager",
                      !.op = [op EXCEPT !.sent = TRUE]]

Notify ==
    /\ \E c \in CandSet, force_send \in BOOLEAN, fault \in {"none", "llm", "send"} :
         LET h == notify_manager_if_pass(hr, c, THRESHOLD, force_send,
                                         fault # "llm", fault # "send")
         IN /\ h.notices[c] <= MaxSends /\ h.forced[c] <= 1
            /\ hr' = h
    /\ UNCHANGED <<run, calc>>

\* A manager slot of c is committed by the reply ingestion; invited: the
\* request to the applicant went out with it and its event was logged.
ProposeSlot ==
    /\ \E c \in CandSet, invited \in BOOLEAN :
         /\ hr.cand[c].status # "absent" /\ CandidateRow(c).manager_id # NoMgr
         /\ Len(hr.slots) < MaxSlots
         /\ hr' = [hr EXCEPT !.now = @ + 1,
                             !.slots = Append(@, [candidate_id |-> c, created_at |-> hr.now + 1]),
                             !.events = IF invited
                                        THEN Append(@, [candidate_id |-> c,
                                                        created_at |-> hr.now + 1])
                                        ELSE @,
                             !.messages[c] = IF invited THEN @ + 1 ELSE @,
                             !.labels[c] = "Awaiting Candidate Confirmation",
                             !.invites[c] = 0,
                             !.op = [NoOp EXCEPT !.fn = "propose"]]
    /\ UNCHANGED <<run, calc>>

already_invited_after(h, candidate_id, since_dt) ==
    \E k \in 1..Len(h.events) :
        h.events[k].candidate_id = candidate_id /\ h.events[k].created_at >= since_dt

\* The newest created_at among the open manager slots of c (NoTime: none).
LatestSlotTime(h, c) ==
    LET mine == {h.slots[k].created_at : k \in {j \in 1..Len(h.slots) :
                                                   h.slots[j].candidate_id = c}}
    IN IF mine = {} THEN NoTime ELSE CHOOSE t \in mine : \A u \in mine : u <= t

\* The email goes out, then building the Message row reads HR_EMAIL, a name
\* the module neither defines nor imports: NameError, rollback, and no
\* Message, event or label is written.
send_invite_for_candidate(h, c, sendOK) ==
    LET op == [NoOp EXCEPT !.fn = "send_invite_for_candidate"]
        latest_slot_time == LatestSlotTime(h, c)
    IN IF h.cand[c].status = "absent" \/ CandidateRow(c).manager_id = NoMgr
       THEN [h EXCEPT !.op = op]
       ELSE IF latest_slot_time = NoTime THEN [h EXCEPT !.op = op]
       ELSE IF already_invited_after(h, c, latest_slot_time) THEN [h EXCEPT !.op = op]
       ELSE IF ~sendOK THEN [h EXCEPT !.op = op]
       ELSE [h EXCEPT !.invites[c] = @ + 1, !.op = [op EXCEPT !.sent = TRUE]]

SendInvite ==
    /\ \E c \in CandSet, sendOK \in BOOLEAN :
         LET h == send_invite_for_candidate(hr, c, sendOK)
         IN /\ h.invites[c] <= MaxSends
            /\ hr' = h
    /\ UNCHANGED <<run, calc>>

OutboundNext ==
    \/ Register
    \/ GraceExpires
    \/ AutoReject
    \/ Notify
    \/ ProposeSlot
    \/ SendInvite

OutboundSpec == Init /\ [][OutboundNext]_vars

----------------------------------------------------------------------------

\* Two ingestion calls at the same time: every call opens a session of its
\* own (SessionLocal(), database/db.py 13-14) on the one PostgreSQL database.
\* The variables sess, broken, pc, kind, party, emails, open_mgr_slots,
\* counts, fetched and marked are those of the call that takes the next
\* step; peer holds those of the other call.

Suffix(s, n) == SubSeq(s, n + 1, Len(s))

\* What a session that read base and has view pending reads once the
\* committed rows are d: the committed rows, with its own uncommitted
\* inserts and updates on top.
Rebase(view, base, d) ==
    [messages |-> d.messages \o Suffix(view.messages, Len(base.messages)),
     events |-> d.events \o Suffix(view.events, Len(base.events)),
     slots |-> [i \in 1..Len(d.slots) |->
                   IF i <= Len(base.slots) /\ view.slots[i] # base.slots[i]
                   THEN view.slots[i] ELSE d.slots[i]]
               \o Suffix(view.slots, Len(base.slots)),
     status |-> [c \in CandSet |->
                    IF view.status[c] # base.status[c] THEN view.status[c]
                    ELSE d.status[c]]]

\* The scheduler lets the other call run.
Switch ==
    /\ pc # "idle" \/ peer.pc # "idle"
    /\ peer' = IF pc = "idle" THEN NoPeer
               ELSE [pc |-> pc, kind |-> kind, party |-> party, emails |-> emails,
                     open_mgr_slots |-> open_mgr_slots, counts |-> counts,
                     fetched |-> fetched, marked |-> marked,
                     sess |-> sess, broken |-> broken, base |-> db]
    /\ pc' = peer.pc
    /\ kind' = peer.kind
    /\ party' = peer.party
    /\ emails' = peer.emails
    /\ open_mgr_slots' = peer.open_mgr_slots
    /\ counts' = peer.counts
    /\ fetched' = peer.fetched
    /\ marked' = peer.marked
    /\ broken' = peer.broken
    /\ sess' = IF peer.pc = "idle" THEN db ELSE Rebase(peer.sess, peer.base, db)
    /\ last' = NoLast
    /\ UNCHANGED <<mail, db, unread_only, handled, accepts, calendars, calc, hr>>

\* The inboxes two calls of entry point k start on: one to MaxMsgs unread
\* messages of the party whose messages k stores, the manager of candidate 1
\* or candidate 1.
RaceInboxes(k) ==
    UNION {[1..n -> {m \in [from : {IF k = "manager" THEN "m1" ELSE "c1"},
                            quick : BOOLEAN, unread : {TRUE}] :
                        m.quick => k = "manager"}] :
           n \in 1..MaxMsgs}

\* The rows two calls of entry point k start on: none for the managers'
\* messages; for the candidates' those of one time request, which left an
\* open manager slot for candidate 1 that a reply can agree to.
RaceStores(k) ==
    IF k = "manager" THEN {EmptyDB}
    ELSE {send_time_confirmation_to_applicant(EmptyDB, 1, 0, 3600, TRUE)}

\* Two calls of the same entry point have both opened their session.
RaceInit ==
    /\ kind \in {"manager", "candidate"}
    /\ mail \in RaceInboxes(kind)
    /\ db \in RaceStores(kind)
    /\ sess = db
    /\ broken = FALSE
    /\ pc = "party"
    /\ unread_only = TRUE
    /\ party = 1
    /\ emails = <<>>
    /\ open_mgr_slots = <<>>
    /\ counts = ZeroCounts
    /\ fetched = {}
    /\ marked = {}
    /\ handled = {}
    /\ accepts = [i \in 1..MaxSlots |-> 0]
    /\ calendars = [i \in 1..MaxSlots |-> 0]
    /\ last = NoLast
    /\ calc = NoCalc
    /\ hr = EmptyHR
    /\ peer = [NoPeer EXCEPT !.pc = "party", !.kind = kind, !.party = 1,
                             !.sess = db, !.base = db]

RaceNext ==
    \/ ManagerParty
    \/ ManagerMessage
    \/ CandidateParty
    \/ CandidateMessage
    \/ Return
    \/ Switch

RaceSpec == RaceInit /\ [][RaceNext]_vars

----------------------------------------------------------------------------

Next ==
    \/ Deliver
    \/ StartManagerRun
    \/ ManagerParty
    \/ ManagerMessage
    \/ StartCandidateRun
    \/ CandidateParty
    \/ CandidateMessage
    \/ Return
    \/ TimeRequest

Spec == Init /\ [][Next]_vars

----------------------------------------------------------------------------
\* Properties

Accepted(d, c) ==
    {i \in 1..Len(d.slots) : d.slots[i].candidate_id = c /\ d.slots[i].status = "accepted"}

\* C1: after any sequence of manager-reply and candidate-reply ingestion
\* runs, every candidate has at most one InterviewSlot whose status is
\* accepted.
C1_AtMostOneAccepted == \A c \in CandSet : Cardinality(Accepted(db, c)) <= 1

\* C2: the side effects of an agreement are driven exactly once per accepted
\* slot: no slot has its acceptance committed twice, and no slot causes a
\* second calendar-event creation call, also within one batch.
C2_OncePerSlot == \A i \in 1..MaxSlots : accepts[i] <= 1 /\ calendars[i] <= 1

ConfirmationMails ==
    {"link_candidate", "link_manager", "manager_agreed", "manager_confirmed",
     "applicant_confirmed"}

\* C3: handling a transport message id that a handler already ran for creates
\* no InterviewSlot, accepts no slot, calls the calendar for none and sends no
\* confirmation email.
C3_SecondPassInert ==
    last.repeat =>
        /\ last.created = 0
        /\ last.accepted = NoSlot
        /\ last.calendar = "none"
        /\ \A k \in 1..Len(last.sends) : last.sends[k] \notin ConfirmationMails

FinalTimeIffAccepted(d) ==
    \A c \in CandSet : (d.status[c].final_meeting_time # NoTime) <=> (Accepted(d, c) # {})

\* C4: in every reachable state, durable or as the running session sees it,
\* a candidate's final_meeting_time is set if and only if some InterviewSlot
\* of that candidate is accepted; the time-request helper never sets it.
C4_FinalTimeIffAccepted == FinalTimeIffAccepted(db) /\ FinalTimeIffAccepted(sess)

\* C4 witness: the time-request helper has stored a slot, an acceptance of
\* it is durable, and the final meeting time is that slot's start.
C4_Witness ==
    \E i \in 1..Len(db.slots) :
        /\ db.slots[i].source = 0
        /\ db.slots[i].status = "accepted"
        /\ db.status[db.slots[i].candidate_id].final_meeting_time = db.slots[i].start_time

Terminal == {"Interview Confirmed", "Rejected by Manager"}

\* C5: once a candidate's durable current_status is Interview Confirmed or
\* Rejected by Manager, no message handled by either entry point changes it.
C5_TerminalStays ==
    [][pc = "msgs" =>
          \A c \in CandSet :
              db.status[c].current_status \in Terminal =>
                  db'.status[c].current_status = db.status[c].current_status]_vars

\* C6: a message's writes are durable all together or not at all: no inbound
\* Message row is durable without the intent update of its own handler, as
\* happens when a later message's commit carries the insert of a message
\* whose handler raised before its commit.
C6_AllOrNothing ==
    \A k \in 1..Len(db.messages) :
        db.messages[k].direction = "inbound" => db.messages[k].intent # NoIntent

\* C7: an exception raised while one message is handled adds exactly one to
\* errors and leaves what comes after it to be handled on its own: no later
\* message fails on what the exception left in the session, and the loop
\* over the parties is not left before its end.
C7_LoopContinues ==
    [][/\ pc = "msgs" =>
            /\ last'.outcome = "error" => counts'.errors = counts.errors + 1
            /\ last'.cause # "pending_rollback"
       /\ (pc = "party" /\ pc' = "idle") =>
            party > (IF kind = "manager" THEN Len(Managers) ELSE Len(Candidates))]_vars

\* C8: after a unique-key violation the transaction is rolled back before
\* the loop goes on, so every next item meets a usable transaction.
C8_RolledBack == pc \in {"party", "msgs"} => ~broken

\* C9: both entry points end by returning their summary; no run ends with
\* an exception leaving the function.
C9_AlwaysReturns == last.outcome # "raised"

\* C10: with unread_only set, a run ends only after mark_read was called for
\* every message its successful fetches returned; a failed fetch adds
\* nothing to either set.
C10_AllMarked ==
    [][(pc # "idle" /\ pc' = "idle" /\ unread_only) => fetched \subseteq marked]_vars

\* C11: a fetch that fails for one manager or candidate adds exactly one to
\* errors, handles, writes and marks nothing of that party, and leaves the run
\* in the loop over the parties, at the next party, with a usable session.
C11_FetchFailureSkipsParty ==
    [][last'.outcome = "fetch_failed" =>
          /\ counts' = [counts EXCEPT !.errors = @ + 1]
          /\ pc' = "party" /\ party' = party + 1
          /\ ~broken'
          /\ db' = db /\ sess' = sess /\ mail' = mail
          /\ marked' = marked /\ fetched' = fetched /\ handled' = handled]_vars

\* C11 witness: the fetch for the first manager failed and unread mail of the
\* second manager is waiting to be fetched by the same run.
C11_Witness ==
    /\ last.outcome = "fetch_failed"
    /\ kind = "manager" /\ party = 2 /\ counts.errors = 1
    /\ \E g \in 1..Len(mail) : mail[g].from = Managers[2] /\ mail[g].unread

\* C12: when ingest_manager_replies ends, the Message row of every manager
\* message whose intent was stored is durable, and when the last row the run
\* wrote is a manager message with intent REJECTION, the durable
\* current_status of its candidate is Rejected by Manager.
C12_ProcessedIsDurable ==
    [][(kind = "manager" /\ pc = "party" /\ pc' = "idle") =>
          /\ \A k \in 1..Len(sess.messages) :
                 (sess.messages[k].direction = "inbound" /\ sess.messages[k].intent # NoIntent)
                     => HasMessage(db', sess.messages[k].gmail_message_id)
          /\ LET n == Len(sess.messages) IN
             (n > 0 /\ sess.messages[n].direction = "inbound"
                    /\ sess.messages[n].intent = "REJECTION")
                 => db'.status[sess.messages[n].candidate_id].current_status
                        = "Rejected by Manager"]_vars

\* A manager handler got as far as its dispatch on the message.
Dispatched(l) ==
    /\ l.entry = "manager"
    /\ l.outcome # "skipped"
    /\ l.cause \notin {"pending_rollback", "duplicate", "llm"}

\* One of the four intent branches ran in the step: the message was not
\* accepted and its intent selects a branch (for SALARY_DISCUSSION the branch
\* shows in the label it writes).
IntentBranchRan ==
    /\ last'.accepted = NoSlot
    /\ \/ last'.intent \in {"MEETING_SCHEDULED", "REJECTION", "PROCEED"}
       \/ /\ last'.intent = "SALARY_DISCUSSION"
          /\ \E c \in CandSet :
                /\ sess'.status[c].current_status = "Salary Discussed"
                /\ sess.status[c].current_status # "Salary Discussed"

\* C13 as stated: for a manager message with quick-confirm wording none of
\* the MEETING_SCHEDULED, SALARY_DISCUSSION, REJECTION and PROCEED branches
\* runs, whatever the open applicant-proposed slots are.
C13_ConfirmationNeverDispatched ==
    [][(pc = "msgs" /\ kind = "manager" /\ mail[Head(emails)].quick /\ Dispatched(last'))
          => ~IntentBranchRan]_vars

\* C13 amended: a manager message with quick-confirm wording is handled by
\* the acceptance path alone when the resolved candidate has an open
\* applicant-proposed slot (a slot is accepted, no slot is created, the label
\* is Interview Confirmed, only the inbound Message row is added); when the
\* candidate has none, no slot is accepted and the message is dispatched on
\* its intent.
C13_ConfirmationWithOpenSlot ==
    [][(pc = "msgs" /\ kind = "manager" /\ mail[Head(emails)].quick /\ Dispatched(last')) =>
          LET c == _resolve_candidate_for_manager(Managers[party]) IN
          IF _latest_open_applicant_slots(sess, c, 5) # <<>>
          THEN /\ last'.accepted # NoSlot
               /\ sess.slots[last'.accepted].proposed_by = "applicant"
               /\ sess.slots[last'.accepted].status = "proposed"
               /\ last'.created = 0
               /\ Len(sess'.slots) = Len(sess.slots)
               /\ sess'.status[c].current_status = "Interview Confirmed"
               /\ Len(sess'.messages) = Len(sess.messages) + 1
               /\ ~IntentBranchRan
          ELSE last'.accepted = NoSlot]_vars

\* C13 witness: a manager message with quick-confirm wording and intent
\* MEETING_SCHEDULED was handled while an applicant slot was open: the slot
\* was accepted and no manager slot was created.
C13_Witness ==
    /\ last.entry = "manager" /\ last.gid # 0
    /\ mail[last.gid].quick
    /\ last.intent = "MEETING_SCHEDULED"
    /\ last.accepted # NoSlot /\ last.created = 0

\* The stated times a manager slot is due for: the start parses and the end,
\* when present, is after the start.
DueTimes(cs) ==
    {i \in 1..Len(cs) :
        /\ cs[i].start >= 0
        /\ cs[i].end # NoIso => (cs[i].end >= 0 /\ cs[i].end > cs[i].start)}

\* What handling a MEETING_SCHEDULED manager message of candidate c with the
\* stated times cs has done when it took session s to r.sess: one open
\* manager slot per due time, everything durable and, when mailed, the label
\* and one email to the applicant with one outbound Message and one event
\* for it.
ScheduledEffects(s, r, c, cs, mailed) ==
    LET n0 == Len(s.slots)
        n1 == Len(r.sess.slots)
        m1 == Len(r.sess.messages)
        e1 == Len(r.sess.events)
    IN /\ n1 = n0 + Cardinality(DueTimes(cs))
       /\ r.created = n1 - n0
       /\ \A i \in (n0 + 1)..n1 :
             /\ r.sess.slots[i].candidate_id = c
             /\ r.sess.slots[i].proposed_by = "manager"
             /\ r.sess.slots[i].status = "proposed"
             /\ \E k \in DueTimes(cs) : r.sess.slots[i].start_time = cs[k].start
       /\ r.db = r.sess
       /\ IF mailed
          THEN /\ r.sess.status[c].current_status = "Awaiting Candidate Confirmation"
               /\ r.sends = <<"applicant_request_times">>
               /\ m1 = Len(s.messages) + 2
               /\ r.sess.messages[m1].direction = "outbound"
               /\ r.sess.messages[m1].intent = "REQUEST_TIME_CONFIRMATION"
               /\ e1 = Len(s.events) + 2
               /\ r.sess.events[e1].event_type = "REQUEST_TIME_CONFIRMATION"
          ELSE /\ r.sends = <<>>
               /\ m1 = Len(s.messages) + 1
               /\ e1 = Len(s.events) + 1

\* The results of handling the manager message at the head of the batch, one
\* per response of the extraction service and fault, with the stated times.
HeadResults ==
    {[r |-> ManagerReply(Head(emails), Managers[party], resp, fault # "import",
                         fault # "calendar", FailAt(fault)),
      cs |-> StatedSlots(parse_intent_llm(resp).meta)] :
        resp \in LLMResponses, fault \in Faults}

\* The handler ended processed in the MEETING_SCHEDULED branch.
ScheduledCase(r) ==
    r.outcome = "processed" /\ r.intent = "MEETING_SCHEDULED" /\ r.accepted = NoSlot

EndsAfterStarts(d) ==
    \A i \in 1..Len(d.slots) :
        d.slots[i].end_time # NoTime => d.slots[i].end_time > d.slots[i].start_time

\* C16: in every reachable state, durable or as the running session sees it,
\* every InterviewSlot that has an end time has it strictly after its start,
\* whichever path created or accepted the slot.
C16_EndsAfterStarts == EndsAfterStarts(db) /\ EndsAfterStarts(sess)

\* C16 witness: a slot with an end time was accepted by a reply (the path
\* that backfills a missing end) next to a slot an ingestion created.
C16_Witness ==
    \E i, j \in 1..Len(db.slots) :
        /\ db.slots[i].end_time # NoTime /\ db.slots[i].status = "accepted"
        /\ db.slots[j].source # 0 /\ db.slots[j].end_time = NoTime

\* C15: a manager-stated time without an explicit offset is stored as the
\* instant it denotes in Asia/Kathmandu: the slot's start is the wall-clock
\* reading minus 05:45 (14:00 gives 08:15 UTC).
C15_NaiveIsKathmandu ==
    (calc.fn = "manager_slot_start" /\ calc.text.zone = "naive")
        => calc.out = calc.text.wall - NPT

\* The slot at position k of the order qualifies for the candidate's times:
\* its start is within five minutes and, when both ends are there, so is its
\* end.
Qualifies(c, k) ==
    LET s == c.slots[c.order[k]] IN
    /\ s.start_time - c.cand_start <= 300 /\ c.cand_start - s.start_time <= 300
    /\ (s.end_time # NoTime /\ c.cand_end # NoTime)
          => (s.end_time - c.cand_end <= 300 /\ c.cand_end - s.end_time <= 300)

\* C17: _find_matching_manager_slot returns the first slot of the given order
\* that qualifies and null when none does; for slots at T and T + 2 h and a
\* candidate time T + 3 min without an end it returns the slot at T.
C17_FirstQualifying ==
    calc.fn = "_find_matching_manager_slot" =>
        LET Q == {k \in 1..Len(calc.order) : Qualifies(calc, k)} IN
        /\ Q = {} => calc.out = NoSlot
        /\ Q # {} => \E k \in Q : /\ \A j \in Q : k <= j
                                  /\ calc.out = calc.order[k]
        /\ ( /\ calc.slots[1].start_time = 0 /\ calc.slots[2].start_time = 7200
             /\ Len(calc.order) = 2
             /\ calc.cand_start = 180 /\ calc.cand_end = NoTime ) => calc.out = 1

\* C17 witness: the first slot of the order is within tolerance at its start
\* but not at its end, and the second slot is returned.
C17_Witness ==
    /\ calc.fn = "_find_matching_manager_slot"
    /\ Len(calc.order) = 2
    /\ calc.cand_end # NoTime
    /\ calc.slots[calc.order[1]].start_time = calc.cand_start
    /\ ~Qualifies(calc, 1)
    /\ calc.out = calc.order[2]

\* C18: _within_tolerance(a, b, 5) is true exactly when the two instants are
\* at most 300 seconds apart, in either order, and so for a = b.
C18_ToleranceInclusive ==
    calc.fn = "_within_tolerance" =>
        /\ calc.out <=> (calc.a - calc.b <= 300 /\ calc.b - calc.a <= 300)
        /\ calc.out <=> _within_tolerance(calc.b, calc.a, 5)
        /\ calc.a = calc.b => calc.out

\* C18 witness: two instants exactly 300 seconds apart were found within
\* tolerance.
C18_Witness ==
    /\ calc.fn = "_within_tolerance"
    /\ calc.b = calc.a + 300
    /\ calc.out

\* The results of handling the candidate message at the head of the batch,
\* one per response of the extraction service and fault, with the stated
\* times.
CandidateHeadResults ==
    {[r |-> CandidateReply(Head(emails), Candidates[party], resp, fault # "calendar",
                           FailAt(fault)),
      cs |-> StatedSlots(parse_intent_llm(resp).meta)] :
        resp \in CandidateResponses, fault \in Faults}

\* The handler got as far as matching the stated times.
Matched(r) == r.cause \notin {"pending_rollback", "duplicate", "llm"}

\* The stated time k against the slots loaded for the batch.
Against(cs, k) ==
    [slots |-> sess.slots, order |-> open_mgr_slots,
     cand_start |-> cs[k].start, cand_end |-> cs[k].end]

\* The stated times that parse and match a slot loaded for the batch.
Matching(cs) ==
    {k \in 1..Len(cs) :
        /\ cs[k].start >= 0
        /\ \E j \in 1..Len(open_mgr_slots) : Qualifies(Against(cs, k), j)}

\* C19: when a stated time of a candidate message matches a manager slot
\* loaded for the batch, the first such time decides: the first slot it
\* matches is accepted (a missing end taken from the candidate's end), no
\* other slot changes and none is created, the label is Interview Confirmed
\* with final_meeting_time the slot's start, exactly one event is added and it
\* is CANDIDATE_ACCEPTED, the calendar is called once, and all is durable.
C19_FirstMatchAccepted ==
    (pc = "msgs" /\ kind = "candidate") =>
        \A h \in CandidateHeadResults :
            (Matched(h.r) /\ Matching(h.cs) # {}) =>
                LET c == Candidates[party]
                    k == CHOOSE k \in Matching(h.cs) : \A o \in Matching(h.cs) : k <= o
                    a == Against(h.cs, k)
                    j == CHOOSE j \in 1..Len(open_mgr_slots) :
                             /\ Qualifies(a, j)
                             /\ \A o \in 1..(j - 1) : ~Qualifies(a, o)
                    i == open_mgr_slots[j]
                IN /\ h.r.accepted = i
                   /\ h.r.sess.slots[i].status = "accepted"
                   /\ h.r.sess.slots[i].start_time = sess.slots[i].start_time
                   /\ h.r.sess.slots[i].end_time =
                         IF sess.slots[i].end_time = NoTime /\ h.cs[k].end # NoIso
                         THEN h.cs[k].end ELSE sess.slots[i].end_time
                   /\ Len(h.r.sess.slots) = Len(sess.slots)
                   /\ h.r.created = 0
                   /\ \A o \in 1..Len(sess.slots) : o # i => h.r.sess.slots[o] = sess.slots[o]
                   /\ h.r.sess.status[c].current_status = "Interview Confirmed"
                   /\ h.r.sess.status[c].final_meeting_time = sess.slots[i].start_time
                   /\ Len(h.r.sess.events) = Len(sess.events) + 1
                   /\ h.r.sess.events[Len(h.r.sess.events)].event_type = "CANDIDATE_ACCEPTED"
                   /\ h.r.calendar \in {"ok", "failed"}
                   /\ h.r.db = h.r.sess

\* C19 witness: a candidate reply accepted a manager slot; the acceptance is
\* durable with its label, its final meeting time and its event, and the
\* calendar was called.
C19_Witness ==
    /\ last.entry = "candidate" /\ last.accepted # NoSlot
    /\ last.calendar = "ok" /\ last.created = 0
    /\ db.slots[last.accepted].status = "accepted"
    /\ db.slots[last.accepted].proposed_by = "manager"
    /\ db.status[db.slots[last.accepted].candidate_id].final_meeting_time
           = db.slots[last.accepted].start_time
    /\ db.events[Len(db.events)].event_type = "CANDIDATE_ACCEPTED"

\* C20: when a candidate message states at least one time that parses and
\* none matches a manager slot loaded for the batch, one open applicant slot
\* is created per such time, the label is Awaiting Manager Confirmation,
\* exactly one event is added and it is CANDIDATE_PROPOSED, and every slot
\* that existed is unchanged.
C20_CounterProposal ==
    (pc = "msgs" /\ kind = "candidate") =>
        \A h \in CandidateHeadResults :
            LET stated == {k \in 1..Len(h.cs) : h.cs[k].start >= 0}
                c == Candidates[party]
                n0 == Len(sess.slots)
                n1 == Len(h.r.sess.slots)
            IN (Matched(h.r) /\ stated # {} /\ Matching(h.cs) = {}) =>
                   /\ n1 = n0 + Cardinality(stated)
                   /\ h.r.created = n1 - n0
                   /\ h.r.accepted = NoSlot
                   /\ \A i \in (n0 + 1)..n1 :
                         /\ h.r.sess.slots[i].candidate_id = c
                         /\ h.r.sess.slots[i].proposed_by = "applicant"
                         /\ h.r.sess.slots[i].status = "proposed"
                         /\ \E k \in stated : h.r.sess.slots[i].start_time = h.cs[k].start
                   /\ \A i \in 1..n0 : h.r.sess.slots[i] = sess.slots[i]
                   /\ h.r.sess.status[c].current_status = "Awaiting Manager Confirmation"
                   /\ Len(h.r.sess.events) = Len(sess.events) + 1
                   /\ h.r.sess.events[Len(h.r.sess.events)].event_type = "CANDIDATE_PROPOSED"
                   /\ h.r.db = h.r.sess

\* C20 witness: a candidate reply that matched no slot created an applicant
\* slot while an open manager slot of the candidate stayed as it was.
C20_Witness ==
    /\ last.entry = "candidate" /\ last.created = 1 /\ last.accepted = NoSlot
    /\ \E i, j \in 1..Len(db.slots) :
          /\ db.slots[i].proposed_by = "manager" /\ db.slots[i].status = "proposed"
          /\ db.slots[j].proposed_by = "applicant" /\ db.slots[j].status = "proposed"
          /\ db.slots[i].candidate_id = db.slots[j].candidate_id
    /\ db.events[Len(db.events)].event_type = "CANDIDATE_PROPOSED"

\* C21: when a candidate reply yields no usable time (no time field, or a
\* stated time that does not parse), no slot is created or changed, the label
\* and the final meeting time stay, exactly one event is added and it is
\* CANDIDATE_REPLIED_NO_TIME, the body is forwarded to the manager, and the
\* handler raises only when that send fails.
C21_NoTimeFallback ==
    (pc = "msgs" /\ kind = "candidate") =>
        \A h \in CandidateHeadResults :
            LET c == Candidates[party] IN
            (Matched(h.r) /\ \A k \in 1..Len(h.cs) : h.cs[k].start < 0) =>
                /\ h.r.sess.slots = sess.slots
                /\ h.r.created = 0 /\ h.r.accepted = NoSlot
                /\ h.r.sess.status[c].current_status = sess.status[c].current_status
                /\ h.r.sess.status[c].final_meeting_time = sess.status[c].final_meeting_time
                /\ Len(h.r.sess.events) = Len(sess.events) + 1
                /\ h.r.sess.events[Len(h.r.sess.events)].event_type
                       = "CANDIDATE_REPLIED_NO_TIME"
                /\ h.r.db = h.r.sess
                /\ IF h.r.outcome = "processed"
                   THEN h.r.sends = <<"manager_fallback">>
                   ELSE h.r.cause = "send" /\ h.r.sends = <<>>

\* C21 witness: a candidate reply was processed with the fallback forward to
\* the manager while an open manager slot of the candidate stayed open.
C21_Witness ==
    /\ last.entry = "candidate" /\ last.outcome = "processed"
    /\ last.sends = <<"manager_fallback">>
    /\ db.events[Len(db.events)].event_type = "CANDIDATE_REPLIED_NO_TIME"
    /\ \E i \in 1..Len(db.slots) :
          db.slots[i].proposed_by = "manager" /\ db.slots[i].status = "proposed"

\* C22: whatever fails in the extraction service during a call of
\* parse_intent_llm (building the client, the call, the decoding of the
\* answer), the call returns OTHER with an empty meta and raises nothing.
C22_ExtractionNeverRaises ==
    (calc.fn = "parse_intent_llm" /\ calc.resp.kind # "ok") =>
        /\ ~calc.out.raised
        /\ calc.out.intent = "OTHER"
        /\ calc.out.meta = EmptyMeta

\* C23: a returned intent is one of the five allowed ones, and
\* MEETING_SCHEDULED is never returned with a meta that has no time.
C23_MeetingHasTime ==
    (calc.fn = "parse_intent_llm" /\ ~calc.out.raised) =>
        /\ calc.out.intent \in ALLOWED_INTENTS
        /\ calc.out.intent = "MEETING_SCHEDULED" => StatedSlots(calc.out.meta) # <<>>
        /\ (calc.resp.kind = "ok" /\ calc.resp.intent = "MEETING_SCHEDULED"
               /\ calc.resp.meeting_iso = NoIso) => calc.out.intent = "PROCEED"

\* C23 witness: the service answered MEETING_SCHEDULED without a time and
\* the call returned PROCEED.
C23_Witness ==
    /\ calc.fn = "parse_intent_llm"
    /\ calc.resp.kind = "ok" /\ calc.resp.intent = "MEETING_SCHEDULED"
    /\ calc.resp.meeting_iso = NoIso
    /\ calc.out.intent = "PROCEED"

\* The results of handling the manager message at the head of the batch, with
\* the meta the extraction returned and the fault of the iteration.
HeadRuns ==
    {[r |-> ManagerReply(Head(emails), Managers[party], resp, fault # "import",
                         fault # "calendar", FailAt(fault)),
      meta |-> parse_intent_llm(resp).meta,
      fault |-> fault] :
        resp \in LLMResponses, fault \in Faults}

\* The handler ran the PROCEED branch.
ProceedCase(r) ==
    r.outcome = "processed" /\ r.intent = "PROCEED" /\ r.accepted = NoSlot

\* What the PROCEED branch leaves in the session: without a time the
\* follow-up to the manager, one outbound ASKED_FOR_AVAILABILITY Message and
\* one such event after the inbound rows, and the label Awaiting Manager
\* Availability, all committed; with a time the label Manager Approved and
\* nothing sent or logged beyond the inbound rows.
ProceedEffects(s, h, c) ==
    LET m1 == Len(h.r.sess.messages)
        e1 == Len(h.r.sess.events)
    IN IF StatedSlots(h.meta) = <<>>
       THEN /\ FailAt(h.fault) # 1 => h.r.sends = <<"manager_availability_followup">>
            /\ m1 = Len(s.messages) + 2
            /\ h.r.sess.messages[m1].direction = "outbound"
            /\ h.r.sess.messages[m1].intent = "ASKED_FOR_AVAILABILITY"
            /\ e1 = Len(s.events) + 2
            /\ h.r.sess.events[e1].event_type = "ASKED_FOR_AVAILABILITY"
            /\ h.r.sess.status[c].current_status = "Awaiting Manager Availability"
            /\ h.r.db = h.r.sess
       ELSE /\ h.r.sends = <<>>
            /\ m1 = Len(s.messages) + 1
            /\ e1 = Len(s.events) + 1
            /\ h.r.sess.status[c].current_status = "Manager Approved"

\* C24: a PROCEED manager message without a time gets the follow-up, its
\* outbound Message and event and the label Awaiting Manager Availability;
\* with a time it gets no follow-up and the label Manager Approved, and when
\* the run ends on that message the label is the stored one.
C24_Proceed ==
    /\ (pc = "msgs" /\ kind = "manager") =>
          \A h \in HeadRuns :
              ProceedCase(h.r) =>
                  ProceedEffects(sess, h, _resolve_candidate_for_manager(Managers[party]))
    /\ (kind = "manager" /\ pc = "party" /\ party > Len(Managers)) =>
          LET n == Len(sess.messages) IN
          (/\ n > 0 /\ sess.messages[n].direction = "inbound"
           /\ sess.messages[n].intent = "PROCEED"
           /\ sess.status[sess.messages[n].candidate_id].current_status = "Manager Approved")
              => db.status[sess.messages[n].candidate_id].current_status
                     = "Manager Approved"

\* C30: when a manager confirmation restates a time, the slot it accepts is
\* an open applicant-proposed slot of the candidate that starts within five
\* minutes of that time; the newest open applicant slot is accepted only when
\* no time was restated.
C30_RestatedTimeDecides ==
    (pc = "msgs" /\ kind = "manager") =>
        \A h \in HeadRuns :
            LET t == TargetOf(h.meta).start
                c == _resolve_candidate_for_manager(Managers[party])
                i == h.r.accepted
            IN (i # NoSlot /\ t # NoTime) =>
                   /\ sess.slots[i].candidate_id = c
                   /\ sess.slots[i].proposed_by = "applicant"
                   /\ sess.slots[i].status = "proposed"
                   /\ _within_tolerance(sess.slots[i].start_time, t, 5)

\* C29: the search for a matching manager slot changes no slot and writes
\* nothing: after a candidate reply is handled, every slot that was there
\* before and is not the returned one is as it was, in the session and in
\* storage, and the returned one differs at most in what the caller sets (its
\* status, and an end it did not have).
C29_MatcherIsPure ==
    (pc = "msgs" /\ kind = "candidate") =>
        \A h \in CandidateHeadResults :
            \A i \in 1..Len(sess.slots) :
                IF i = h.r.accepted
                THEN /\ h.r.sess.slots[i].status = "accepted"
                     /\ [h.r.sess.slots[i] EXCEPT !.status = sess.slots[i].status,
                                                  !.end_time = sess.slots[i].end_time]
                            = sess.slots[i]
                     /\ sess.slots[i].end_time # NoTime =>
                            h.r.sess.slots[i].end_time = sess.slots[i].end_time
                ELSE /\ h.r.sess.slots[i] = sess.slots[i]
                     /\ h.r.db.slots[i] = sess.slots[i]

\* C29 witness: a candidate reply matched the second of two manager slots
\* and the first one is still open.
C29_Witness ==
    /\ last.entry = "candidate" /\ last.accepted = 2
    /\ Len(db.slots) = 2
    /\ db.slots[1].proposed_by = "manager" /\ db.slots[1].status = "proposed"
    /\ db.slots[2].status = "accepted"

\* The candidates the sweep is to reject: status Received, uploaded before the
\* grace period, a score below the threshold, no internal referral, an email.
DueForRejection(h, c) ==
    /\ h.cand[c].status = "Received" /\ h.cand[c].old
    /\ h.cand[c].cv_score # NoScore /\ h.cand[c].cv_score < DefaultThreshold
    /\ ~h.cand[c].internal /\ h.cand[c].email

\* C25: a run of auto_reject_candidates in which nothing outside fails flips
\* to Rejected exactly the candidates that are due, and leaves the status of
\* every other candidate as it was.
C25_FlipsExactlyTheDue ==
    LET h == auto_reject_candidates(hr, DefaultThreshold, {}, {})
    IN \A c \in CandSet :
           h.cand[c].status = IF DueForRejection(hr, c) THEN "Rejected"
                              ELSE hr.cand[c].status

C27_NotifiedOnce ==
    \A c \in CandSet :
        /\ hr.notices[c] <= 1
        /\ hr.notices[c] = 1 => hr.cand[c].status = "Forwarded to Manager"
        /\ \A fault \in {"none", "llm", "send"} :
               LET h == notify_manager_if_pass(hr, c, THRESHOLD, FALSE,
                                               fault # "llm", fault # "send")
               IN /\ h.op.sent =>
                        /\ hr.cand[c].status = "Received"
                        /\ hr.cand[c].cv_score # NoScore /\ hr.cand[c].cv_score >= THRESHOLD
                        /\ h.cand[c].status = "Forwarded to Manager"
                        /\ h.notices[c] = 1
                  /\ ~h.op.sent => h.notices = hr.notices /\ h.cand = hr.cand

\* C27 witness: candidate 1 was announced to its manager once, never with
\* force_send, and a call made after that sent nothing.
C27_Witness ==
    /\ hr.notices[1] = 1 /\ hr.forced[1] = 0
    /\ hr.cand[1].status = "Forwarded to Manager"
    /\ hr.op.fn = "notify_manager_if_pass" /\ ~hr.op.sent

\* C28: between two creations of manager slots a candidate is sent at most
\* one invitation, and a sent invitation has its outbound Message and its
\* REQUEST_TIME_CONFIRMATION event, which is what makes later calls return.
C28_InvitedOnce ==
    \A c \in CandSet :
        /\ hr.invites[c] <= 1
        /\ hr.invites[c] = 1 =>
               /\ hr.messages[c] >= 1
               /\ already_invited_after(hr, c, LatestSlotTime(hr, c))

\* The slots a handler result added to the ones of session s.
NewSlots(s, r) == {i \in 1..Len(r.sess.slots) : i > Len(s.slots)}

Balance ==
    counts.processed + counts.skipped + counts.errors + Len(emails) - Cardinality(fetched)

\* C33: in a run, every fetched message adds one to exactly one of
\* processed, skipped and errors, every failed fetch adds one to errors, and
\* nothing else is counted; so when the run returns, with no message left
\* in a batch, the three counters add up to the messages fetched plus the
\* failed fetches.
C33_CountsAddUp ==
    [][/\ pc' = "party" => emails' = <<>>
       /\ (pc = "idle" /\ pc' # "idle") => Balance' = 0
       /\ (pc # "idle" /\ pc' # "idle") =>
             /\ Balance' = Balance + (IF last'.outcome = "fetch_failed" THEN 1 ELSE 0)
             /\ counts'.processed >= counts.processed
             /\ counts'.skipped >= counts.skipped
             /\ counts'.errors >= counts.errors
             /\ pc = "msgs" =>
                   /\ emails' = Tail(emails)
                   /\ (counts'.processed + counts'.skipped + counts'.errors)
                          = (counts.processed + counts.skipped + counts.errors) + 1]_vars

\* C33 witness: a run is about to return having counted a processed
\* message, the skipped message of a candidate without manager or a message
\* that raised, and a failed fetch.
C33_Witness ==
    /\ pc = "party" /\ party > Len(Managers) /\ ~broken
    /\ counts.processed + counts.skipped + counts.errors = Cardinality(fetched) + 1
    /\ Cardinality(fetched) = 2
    /\ counts.processed = 1

C36_OnlyQuickConfirmAccepts ==
    (pc = "msgs" /\ kind = "manager") =>
        /\ \A resp \in LLMResponses :
               parse_intent_llm(resp).intent \notin CONFIRM_INTENTS
        /\ \A h \in HeadRuns :
               h.r.accepted # NoSlot =>
                   /\ mail[Head(emails)].quick
                   /\ _latest_open_applicant_slots(
                          sess, _resolve_candidate_for_manager(Managers[party]), 5) # <<>>

\* C36 witness: a manager message with quick-confirm wording, whose intent
\* was stored as OTHER, accepted a slot.
C36_Witness ==
    /\ last.entry = "manager" /\ last.accepted # NoSlot /\ last.intent = "OTHER"
    /\ mail[last.gid].quick
    /\ db.slots[last.accepted].status = "accepted"

\* The emails of a handler that carry the meeting link.
LinkMails(l) == {k \in 1..Len(l.sends) : l.sends[k] \in {"link_candidate", "link_manager"}}

\* C37: after an acceptance the emails with the meeting link go out only if
\* the calendar event was created; when the calendar call failed the
\* acceptance is stored and no email with a link is sent.
C37_LinkOnlyWithEvent ==
    last.accepted # NoSlot =>
        /\ LinkMails(last) # {} => last.calendar = "ok"
        /\ last.calendar = "failed" =>
               /\ db.slots[last.accepted].status = "accepted"
               /\ LinkMails(last) = {}

\* C38: a manager message moves the label to Awaiting Candidate Confirmation
\* only if it created a manager-proposed slot and the applicant was emailed
\* the proposed times; a MEETING_SCHEDULED message none of whose times is
\* usable leaves the label as it was.
C38_AwaitingCandidateOnlyWhenMailed ==
    (pc = "msgs" /\ kind = "manager") =>
        \A h \in HeadRuns :
            LET c == _resolve_candidate_for_manager(Managers[party])
                was == sess.status[c].current_status
                now == h.r.sess.status[c].current_status
            IN /\ (now = "Awaiting Candidate Confirmation" /\ now # was) =>
                      /\ h.r.created >= 1
                      /\ h.r.sends = <<"applicant_request_times">>
               /\ (/\ h.r.intent = "MEETING_SCHEDULED" /\ h.r.accepted = NoSlot
                   /\ h.r.created = 0) => now = was

\* The rows of d that carry the transport id g.
RowsOf(d, g) == {i \in 1..Len(d.messages) : d.messages[i].gmail_message_id = g}

\* The step was the handling of a message that did something for it: an
\* email, a calendar call, an acceptance, a new slot, or a commit.
Performed(l) ==
    /\ l.gid # 0
    /\ \/ l.sends # <<>> \/ l.calendar # "none" \/ l.accepted # NoSlot
       \/ l.created > 0 \/ l.committed

\* C39: when two ingestion calls run at the same time and fetch the same
\* unread messages, no transport id is ever stored in more than one Message
\* row, and a call performs a message's slot, status, event, calendar or
\* email side effects (or changes the stored rows at all) only in the step
\* in which it is the one that stores the message's row; a call that finds
\* the row stored performs none of them.
C39_OneCallStoresAndActs ==
    [][/\ \A g \in 1..Len(mail) : Cardinality(RowsOf(db', g)) <= 1
       /\ (Performed(last') \/ (last'.gid # 0 /\ db' # db)) =>
              /\ RowsOf(db, last'.gid) = {}
              /\ RowsOf(db', last'.gid) # {}]_vars

\* C39 witness: both calls are in progress and have fetched the same message;
\* one has stored its row, and the other has just failed on it with the
\* duplicate key and done nothing.
C39_Witness ==
    /\ peer.pc # "idle" /\ pc # "idle"
    /\ last.gid # 0 /\ last.gid \in fetched /\ last.gid \in peer.fetched
    /\ last.outcome = "error" /\ last.cause = "duplicate"
    /\ last.sends = <<>> /\ ~last.committed
    /\ RowsOf(db, last.gid) # {}
    /\ \E i \in 1..Len(db.slots) : db.slots[i].source = last.gid

====
